---- MODULE Spec2Model ----
(***************************************************************************)
(* Database-backed periodic task scheduler (celery_app/scheduler.py) and   *)
(* the persisted rows it reads (app/models/models.py).                     *)
(*                                                                         *)
(* Time is wall-clock time in whole seconds.  A nullable field holds None  *)
(* (the empty tuple) or Some(v) (a one-element tuple).                     *)
(***************************************************************************)
EXTENDS Integers, Sequences, FiniteSets, TLC

VARIABLES
    now,             \* the wall clock, what now_utc() returns
    task_model,      \* EntrySpec: the PeriodicTask object the entries under test share
    ents,            \* EntrySpec: the entries built so far, ents[1] the first one
    op,              \* EntrySpec: the last call made on an entry and what it returned
    fired_when_due,  \* EntrySpec: was the first __next__() called on an entry that was due
    db_tasks,        \* table celery_periodic_task: name -> None or Some(row)
    db_intervals,    \* table celery_interval_schedule: id -> None or Some(row)
    db_crontabs,     \* table celery_crontab_schedule: id -> None or Some(row)
    db_changed,      \* table celery_periodic_task_changed: last_update of row id = 1, or None
    _schedule,       \* DatabaseScheduler._schedule: name -> [entry, task_model]
    _dirty,          \* DatabaseScheduler._dirty
    _last_timestamp, \* DatabaseScheduler._last_timestamp
    _initial_read,   \* DatabaseScheduler._initial_read
    pc,              \* where the scheduler loop stands
    sync_pass,       \* why the running sync pass was started and the names it wrote
    admin,           \* the admin request in progress
    faults,          \* whether the storage and the broker answer, and the outages so far
    audit,           \* notes for the properties: failed writes, the last load, the last send,
                     \* the last delay, resets of dirty names, names dispatched
    db_results       \* table celery_task_result: task_id -> None or Some(row)

entry_vars == <<task_model, ents, op, fired_when_due>>
db_vars == <<db_tasks, db_intervals, db_crontabs, db_changed>>
sched_vars == <<_schedule, _dirty, _last_timestamp, _initial_read, pc, sync_pass>>
env_vars == <<faults, audit>>
sys_vars == <<db_vars, sched_vars, admin, env_vars, db_results>>
aside_vars == <<entry_vars, db_results>>
vars == <<now, entry_vars, sys_vars>>

None == <<>>
Some(x) == <<x>>

Min2(a, b) == IF a <= b THEN a ELSE b
Max2(a, b) == IF a >= b THEN a ELSE b
SetMin(S) == CHOOSE x \in S : \A y \in S : x <= y

(***************************************************************************)
(* Program constants                                                       *)
(***************************************************************************)
DisabledRecheck == 5
DormantRecheck == 86400
CrontabThreshold == 1
CrontabRecheck == 5
DefaultEvery == 60
OneDay == 86400
MinStartDelay == 1
DEFAULT_MAX_INTERVAL == 5

(***************************************************************************)
(* Schedule expressions                                                    *)
(***************************************************************************)
schedstate(due, next) == [is_due |-> due, next |-> next]

\* timedelta(**{period: every}) in seconds.  The clock of the model ticks in
\* whole seconds, so a microseconds interval is a whole number of seconds here.
timedelta(period, every) ==
    CASE period = "days" -> every * 86400
      [] period = "hours" -> every * 3600
      [] period = "minutes" -> every * 60
      [] period = "seconds" -> every
      [] period = "microseconds" -> every \div 1000000

\* IntervalSchedule.schedule: celery.schedules.schedule(run_every)
IntervalSchedule_schedule(interval) ==
    [type |-> "schedule", run_every |-> timedelta(interval.period, interval.every)]

\* A crontab field as the set of minutes it matches.
crontab_parse(field) ==
    CASE field = "*" -> 0 .. 59
      [] field = "*/15" -> {0, 15, 30, 45}
      [] field = "0" -> {0}
      [] field = "30" -> {30}

\* pytz.timezone(name): the names pytz knows.
pytz_known(name) == name \in {"Asia/Shanghai", "UTC"}

\* CrontabSchedule.schedule: celery.schedules.crontab(minute=..., nowfun=now in tz).
\* hour, day_of_week, day_of_month and month_of_year are "*" in this model, and
\* the zones of the model are whole hours from UTC, so the minute of the hour
\* is the same in every zone.
CrontabSchedule_schedule(crontab) ==
    [type |-> "crontab", minute |-> crontab_parse(crontab.minute),
     tz |-> IF crontab.timezone # "" THEN crontab.timezone ELSE "Asia/Shanghai"]

\* The schedule property raises for a timezone name pytz does not know.
CrontabSchedule_raises(crontab) ==
    ~pytz_known(IF crontab.timezone # "" THEN crontab.timezone ELSE "Asia/Shanghai")

\* schedule_is_due with the period counted as elapsed one second late.
schedule_is_due_strict(s, last_run_at, t) ==
    LET remaining_s == Max2((last_run_at + s.run_every + 1) - t, 0)
    IN  IF remaining_s = 0 THEN schedstate(TRUE, s.run_every)
        ELSE schedstate(FALSE, remaining_s)

\* celery schedule.is_due(last_run_at): due once run_every has elapsed.
schedule_is_due(s, last_run_at, t) ==
    LET remaining_s == Max2((last_run_at + s.run_every) - t, 0)
    IN  IF remaining_s = 0 THEN schedstate(TRUE, s.run_every)
        ELSE schedstate(FALSE, remaining_s)

\* The first matching minute boundary after the minute t lies in.
crontab_next(s, t) ==
    LET hour_start == t - (t % 3600)
        minute == (t % 3600) \div 60
        later == {m \in s.minute : m > minute}
    IN  IF later # {} THEN hour_start + 60 * SetMin(later)
        ELSE hour_start + 3600 + 60 * SetMin(s.minute)

\* celery crontab.is_due(last_run_at): due when an occurrence after last_run_at
\* has been reached; the wait it then returns is the time to the occurrence
\* after now.
crontab_is_due(s, last_run_at, t) ==
    LET rem == Max2(crontab_next(s, last_run_at) - t, 0)
    IN  IF rem = 0 THEN schedstate(TRUE, Max2(crontab_next(s, t) - t, 0))
        ELSE schedstate(FALSE, rem)

raw_is_due(s, last_run_at, t) ==
    IF s.type = "crontab" THEN crontab_is_due(s, last_run_at, t)
    ELSE schedule_is_due(s, last_run_at, t)

(***************************************************************************)
(* DatabaseScheduleEntry                                                   *)
(***************************************************************************)
\* __init__: resolves the schedule and replaces a null last_run_at of the
\* task_model.  Returns the entry and the task_model as __init__ leaves it.
Entry__init__(tm, t) ==
    LET resolved == IF tm.interval # None THEN IntervalSchedule_schedule(tm.interval[1])
                    ELSE IF tm.crontab # None THEN CrontabSchedule_schedule(tm.crontab[1])
                    ELSE [type |-> "schedule", run_every |-> DefaultEvery]
        tm1 == IF tm.last_run_at = None
               THEN [tm EXCEPT !.last_run_at = Some(t - OneDay)]
               ELSE tm
    IN  [entry |-> [name |-> tm.name,
                    schedule |-> resolved,
                    last_run_at |-> tm1.last_run_at[1],
                    total_run_count |-> tm1.total_run_count],
         task_model |-> tm1]

\* __next__ as a pure function: the successor gets the new values, the
\* task_model is left as it was.
Entry__next__pure(entry, tm, t) ==
    [entry |-> [entry EXCEPT !.last_run_at = t, !.total_run_count = entry.total_run_count + 1],
     task_model |-> tm]

\* __next__ that counts the run but keeps the old last_run_at.
Entry__next__keeps_last_run(entry, tm, t) ==
    Entry__init__([tm EXCEPT !.total_run_count = tm.total_run_count + 1], t)

\* __next__: writes the run into the task_model and builds a new entry from it.
Entry__next__(entry, tm, t) ==
    Entry__init__([tm EXCEPT !.last_run_at = Some(t),
                             !.total_run_count = tm.total_run_count + 1], t)

\* The crontab window gate that returns the wait of the schedule as it is.
gated_is_due_uncapped(entry, tm, t) ==
    LET r == raw_is_due(entry.schedule, entry.last_run_at, t)
    IN  IF tm.crontab # None /\ r.is_due /\ r.next > CrontabThreshold
        THEN schedstate(FALSE, r.next)
        ELSE r

\* is_due without its crontab window gate.
gated_is_due_ungated(entry, tm, t) ==
    raw_is_due(entry.schedule, entry.last_run_at, t)

\* The schedule's answer after the crontab window gate of is_due.
gated_is_due(entry, tm, t) ==
    LET r == raw_is_due(entry.schedule, entry.last_run_at, t)
    IN  IF tm.crontab # None /\ r.is_due /\ r.next > CrontabThreshold
        THEN schedstate(FALSE, Min2(r.next, CrontabRecheck))
        ELSE r

\* is_due with the enabled test made after the expiry test.
is_due_disabled_late(entry, tm, t) ==
    IF tm.expires # None /\ t >= tm.expires[1] THEN schedstate(FALSE, DormantRecheck)
    ELSE IF ~tm.enabled THEN schedstate(FALSE, DisabledRecheck)
    ELSE IF tm.start_time # None /\ t < tm.start_time[1]
    THEN schedstate(FALSE, Max2(MinStartDelay, tm.start_time[1] - t))
    ELSE IF tm.one_off /\ tm.total_run_count > 0 THEN schedstate(FALSE, DormantRecheck)
    ELSE gated_is_due(entry, tm, t)

\* is_due with the expiry test made before the start_time test.
is_due_expiry_first(entry, tm, t) ==
    IF ~tm.enabled THEN schedstate(FALSE, DisabledRecheck)
    ELSE IF tm.expires # None /\ t >= tm.expires[1] THEN schedstate(FALSE, DormantRecheck)
    ELSE IF tm.start_time # None /\ t < tm.start_time[1]
    THEN schedstate(FALSE, Max2(MinStartDelay, tm.start_time[1] - t))
    ELSE IF tm.one_off /\ tm.total_run_count > 0 THEN schedstate(FALSE, DormantRecheck)
    ELSE gated_is_due(entry, tm, t)

\* is_due with the expiry comparison the wrong way round.
is_due_expiry_flipped(entry, tm, t) ==
    IF ~tm.enabled THEN schedstate(FALSE, DisabledRecheck)
    ELSE IF tm.start_time # None /\ t < tm.start_time[1]
    THEN schedstate(FALSE, Max2(MinStartDelay, tm.start_time[1] - t))
    ELSE IF tm.expires # None /\ t < tm.expires[1] THEN schedstate(FALSE, DormantRecheck)
    ELSE IF tm.one_off /\ tm.total_run_count > 0 THEN schedstate(FALSE, DormantRecheck)
    ELSE gated_is_due(entry, tm, t)

\* is_due that lets a one-off job run until it has run twice.
is_due_one_off_twice(entry, tm, t) ==
    IF ~tm.enabled THEN schedstate(FALSE, DisabledRecheck)
    ELSE IF tm.start_time # None /\ t < tm.start_time[1]
    THEN schedstate(FALSE, Max2(MinStartDelay, tm.start_time[1] - t))
    ELSE IF tm.expires # None /\ t >= tm.expires[1] THEN schedstate(FALSE, DormantRecheck)
    ELSE IF tm.one_off /\ tm.total_run_count > 1 THEN schedstate(FALSE, DormantRecheck)
    ELSE gated_is_due(entry, tm, t)

\* is_due
is_due(entry, tm, t) ==
    IF ~tm.enabled THEN schedstate(FALSE, DisabledRecheck)
    ELSE IF tm.start_time # None /\ t < tm.start_time[1]
    THEN schedstate(FALSE, Max2(MinStartDelay, tm.start_time[1] - t))
    ELSE IF tm.expires # None /\ t >= tm.expires[1]
    THEN schedstate(FALSE, DormantRecheck)
    ELSE IF tm.one_off /\ tm.total_run_count > 0
    THEN schedstate(FALSE, DormantRecheck)
    ELSE gated_is_due(entry, tm, t)

(***************************************************************************)
(* EntrySpec: one task_model drawn from the rows a table can hold, the     *)
(* entry built from it, and the calls is_due() and __next__() on the       *)
(* entries while the clock moves.                                          *)
(***************************************************************************)
MaxEvery == 2
MaxEntries == 3

T0 == 10 * 86400
StartInstants == {T0, T0 + 30}
LaterInstants == {T0 + 59 + OneDay}

IntervalRows ==
    [every : 1 .. MaxEvery, period : {"seconds"}]
    \cup {[every |-> 1, period |-> "minutes"],
          [every |-> 2, period |-> "days"],
          [every |-> 1000000, period |-> "microseconds"]}
CrontabRows ==
    {[minute |-> "*", timezone |-> "Asia/Shanghai"],
     [minute |-> "*/15", timezone |-> ""]}

ScheduleRefs ==
    {[interval |-> Some(i), crontab |-> None] : i \in IntervalRows}
    \cup {[interval |-> None, crontab |-> Some(c)] : c \in CrontabRows}
    \cup {[interval |-> Some([every |-> MaxEvery, period |-> "seconds"]),
           crontab |-> Some([minute |-> "*", timezone |-> "Asia/Shanghai"])],
          [interval |-> None, crontab |-> None]}

\* seconds before the initial instant at which the row was last run
LastRunAgo == (0 .. MaxEvery + 1) \cup {61}

TaskModels(t) ==
    {[name |-> "ping", enabled |-> en, interval |-> ref.interval, crontab |-> ref.crontab,
      one_off |-> oo, start_time |-> st, expires |-> ex,
      last_run_at |-> lr, total_run_count |-> cnt] :
        en \in BOOLEAN, ref \in ScheduleRefs, oo \in BOOLEAN,
        st \in {None, Some(t - 3600), Some(t + 30)},
        ex \in {None, Some(t - 3600), Some(t + 3600)},
        lr \in {None} \cup {Some(t - a) : a \in LastRunAgo},
        cnt \in 0 .. 1}

NoPass == [why |-> "none", saved |-> {}]
NoFaults == [storage |-> "up", broker |-> "up", n |-> 0]
NoAudit == [unsaved |-> {}, load |-> "ok", sent |-> None, delay |-> 0,
            reset |-> {}, fired |-> {}]

\* The scheduler and the tables are not part of EntrySpec.
SysQuiet ==
    /\ db_tasks = <<>> /\ db_intervals = <<>> /\ db_crontabs = <<>> /\ db_changed = None
    /\ _schedule = <<>> /\ _dirty = {} /\ _last_timestamp = None /\ _initial_read = TRUE
    /\ pc = "idle" /\ sync_pass = NoPass
    /\ admin = [pc |-> "idle", ops |-> 0]
    /\ faults = NoFaults /\ audit = NoAudit
    /\ db_results = <<>>

NoCall == [kind |-> "none", idx |-> 0, at |-> 0, result |-> schedstate(FALSE, 0)]

EntryInit ==
    /\ now \in StartInstants
    /\ \E tm \in TaskModels(now) :
          LET built == Entry__init__(tm, now)
          IN  /\ task_model = built.task_model
              /\ ents = <<[entry |-> built.entry, parent |-> 0,
                           null_last_run |-> tm.last_run_at = None]>>
    /\ op = NoCall
    /\ fired_when_due = FALSE
    /\ SysQuiet

\* entry ents[i].is_due()
CallIsDue(i) ==
    /\ op' = [kind |-> "is_due", idx |-> i, at |-> now,
              result |-> is_due(ents[i].entry, task_model, now)]
    /\ UNCHANGED <<now, task_model, ents, fired_when_due, sys_vars>>

\* next(ents[i])
CallNext(i) ==
    /\ Len(ents) < MaxEntries
    /\ LET built == Entry__next__(ents[i].entry, task_model, now)
       IN  /\ task_model' = built.task_model
           /\ ents' = Append(ents, [entry |-> built.entry, parent |-> i,
                                    null_last_run |-> FALSE])
    /\ fired_when_due' = IF Len(ents) = 1
                         THEN is_due(ents[1].entry, task_model, now).is_due
                         ELSE fired_when_due
    /\ op' = [kind |-> "next", idx |-> i, at |-> now, result |-> schedstate(FALSE, 0)]
    /\ UNCHANGED <<now, sys_vars>>

\* the clock moves on
EntryTick ==
    /\ \E t \in LaterInstants : t > now /\ now' = t
    /\ UNCHANGED <<entry_vars, sys_vars>>

EntryNext ==
    \/ \E i \in 1 .. Len(ents) : CallIsDue(i)
    \/ \E i \in 1 .. Len(ents) : CallNext(i)
    \/ EntryTick

EntrySpec == EntryInit /\ [][EntryNext]_vars

(***************************************************************************)
(* CronSpec: one enabled crontab job and the ticks of the loop on its      *)
(* entry, at most max_interval apart, over the minutes around its          *)
(* occurrences: tick() evaluates is_due() on the entry of the table and    *)
(* reserve() replaces it by its successor when it is due.                  *)
(***************************************************************************)
MaxMinutes == 2

\* five seconds before minute 15 of the hour, where both crontabs match
CronStart == T0 + 14 * 60 + 55
CronEnd == CronStart + 60 * MaxMinutes

CronInit ==
    /\ now = CronStart
    /\ \E c \in CrontabRows, lr \in {None, Some(CronStart - 10)} :
          LET built == Entry__init__(
                           [name |-> "ping", enabled |-> TRUE, interval |-> None,
                            crontab |-> Some(c), one_off |-> FALSE, start_time |-> None,
                            expires |-> None, last_run_at |-> lr, total_run_count |-> 0],
                           now)
          IN  /\ task_model = built.task_model
              /\ ents = <<[entry |-> built.entry, parent |-> 0,
                           null_last_run |-> lr = None]>>
    /\ op = NoCall
    /\ fired_when_due = FALSE
    /\ SysQuiet

\* tick(): is_due() on the entry of the table; reserve() when it is due
CronTick ==
    LET i == Len(ents)
        r == is_due(ents[i].entry, task_model, now)
    IN  /\ r.is_due => i < MaxEntries
        /\ op' = [kind |-> "is_due", idx |-> i, at |-> now, result |-> r]
        /\ IF r.is_due
           THEN LET built == Entry__next__(ents[i].entry, task_model, now)
                IN  /\ task_model' = built.task_model
                    /\ ents' = Append(ents, [entry |-> built.entry, parent |-> i,
                                             null_last_run |-> FALSE])
           ELSE UNCHANGED <<task_model, ents>>
        /\ UNCHANGED <<now, fired_when_due, sys_vars>>

\* the loop sleeps, at most max_interval
CronSleep ==
    /\ \E d \in 1 .. DEFAULT_MAX_INTERVAL : now + d <= CronEnd /\ now' = now + d
    /\ UNCHANGED <<entry_vars, sys_vars>>

CronNext ==
    \/ CronTick
    \/ CronSleep

CronSpec == CronInit /\ [][CronNext]_vars

(***************************************************************************)
(* The scheduler loop (DatabaseScheduler) over the tables, and the admin   *)
(* service (TaskSchedulerService, admin_views) writing the same tables     *)
(* from another process.  Every step is one access to the database or one  *)
(* in-memory operation of the loop.                                        *)
(*   Spec       the loop interleaved with job and schedule updates         *)
(*   FaultSpec  the loop with a storage and a broker that can fail, and    *)
(*              its shutdown                                               *)
(*   AdminSpec  sequences of admin operations on the three tables          *)
(*   ExternalSpec  the loop and a writer that does not write the marker    *)
(***************************************************************************)
MaxTicks == 1
MaxAdminOps == 1
MaxFaults == 1

TaskNames == {"a", "b"}
IntervalIds == 1 .. 3
CrontabIds == 1 .. 3
Periods == {"days", "hours", "minutes", "seconds", "microseconds"}

\* a value of PeriodicTaskChanged.last_update: the second it was written in and
\* its order among the writes of that second
StampAfter(a, b) == a.at > b.at \/ (a.at = b.at /\ a.seq > b.seq)

\* PeriodicTask.filter(...).prefetch_related("interval", "crontab"): the row
\* with its schedule rows attached
Prefetched(row) ==
    [name |-> row.name, enabled |-> row.enabled,
     interval |-> IF row.interval_id # None THEN db_intervals[row.interval_id[1]] ELSE None,
     crontab |-> IF row.crontab_id # None THEN db_crontabs[row.crontab_id[1]] ELSE None,
     one_off |-> row.one_off, start_time |-> row.start_time, expires |-> row.expires,
     last_run_at |-> row.last_run_at, total_run_count |-> row.total_run_count]

\* an entry that is built whatever the timezone of its crontab
EntryRaises_never(tm) == FALSE

\* building the entry of a task raises when the schedule it resolves to does:
\* timedelta(**{period: every}) for a period it has no argument for,
\* pytz.timezone for a name it does not know
EntryRaises(tm) ==
    IF tm.interval # None THEN tm.interval[1].period \notin Periods
    ELSE tm.crontab # None /\ CrontabSchedule_raises(tm.crontab[1])

\* the rows the query of _load_entries_from_db returns
EnabledRows == {n \in TaskNames : db_tasks[n] # None /\ db_tasks[n][1].enabled}

\* _load_entries_from_db whose query has no enabled=True filter
_load_entries_from_db_unfiltered(t) ==
    IF faults.storage = "down" THEN <<>>
    ELSE LET names == {n \in TaskNames : /\ db_tasks[n] # None
                                         /\ ~EntryRaises(Prefetched(db_tasks[n][1]))}
         IN  [n \in names |-> Entry__init__(Prefetched(db_tasks[n][1]), t)]

\* _load_entries_from_db where one row that cannot be built fails the whole load
_load_entries_from_db_all_or_nothing(t) ==
    IF faults.storage = "down"
       \/ \E n \in EnabledRows : EntryRaises(Prefetched(db_tasks[n][1]))
    THEN <<>>
    ELSE [n \in EnabledRows |-> Entry__init__(Prefetched(db_tasks[n][1]), t)]

\* _load_entries_from_db: an entry for every enabled row that can be built;
\* nothing when the query raises
_load_entries_from_db(t) ==
    IF faults.storage = "down" THEN <<>>
    ELSE LET names == {n \in EnabledRows : ~EntryRaises(Prefetched(db_tasks[n][1]))}
         IN  [n \in names |-> Entry__init__(Prefetched(db_tasks[n][1]), t)]

\* _get_changed_timestamp: None when there is no marker row or the read raises
_get_changed_timestamp == IF faults.storage = "down" THEN None ELSE db_changed

\* PeriodicTaskChanged.update_changed: last_update = now
update_changed ==
    Some([at |-> now,
          seq |-> IF db_changed # None /\ db_changed[1].at = now
                  THEN db_changed[1].seq + 1 ELSE 0])

\* _save_entry that writes the enabled flag of the entry's task_model too
_save_entry_with_enabled(e) ==
    IF faults.storage = "up" /\ db_tasks[e.entry.name] # None
    THEN [db_tasks EXCEPT ![e.entry.name] =
             Some([@[1] EXCEPT !.last_run_at = e.task_model.last_run_at,
                               !.total_run_count = e.task_model.total_run_count,
                               !.enabled = e.task_model.enabled])]
    ELSE db_tasks

\* _save_entry: writes the two statistics of the entry's task_model into the
\* row of that name, if there is one; an exception of the write is logged
_save_entry(e) ==
    IF faults.storage = "up" /\ db_tasks[e.entry.name] # None
    THEN [db_tasks EXCEPT ![e.entry.name] =
             Some([@[1] EXCEPT !.last_run_at = e.task_model.last_run_at,
                               !.total_run_count = e.task_model.total_run_count])]
    ELSE db_tasks

Row(n, iv, ct, oo) ==
    [name |-> n, enabled |-> TRUE, interval_id |-> iv, crontab_id |-> ct,
     one_off |-> oo, start_time |-> None, expires |-> None,
     last_run_at |-> None, total_run_count |-> 0]

EntryQuiet ==
    /\ task_model = None /\ ents = <<>> /\ op = NoCall /\ fired_when_due = FALSE

\* The tables as the admin left them (task "b" is one of bs), and the
\* scheduler as __init__ and setup_schedule leave it.
Booted(bs) ==
    /\ now = T0
    /\ faults = NoFaults
    /\ audit = NoAudit
    /\ db_intervals = (1 :> Some([every |-> 1, period |-> "seconds"])
                       @@ 2 :> Some([every |-> 2, period |-> "seconds"])
                       @@ 3 :> None)
    /\ db_crontabs = (1 :> Some([minute |-> "*", timezone |-> "Asia/Shanghai"])
                      @@ 2 :> Some([minute |-> "*", timezone |-> "Mars/Olympus"])
                      @@ 3 :> None)
    /\ \E b \in bs :
          db_tasks = ("a" :> Some(Row("a", Some(1), None, FALSE)) @@ "b" :> b)
    /\ db_changed \in {None, Some([at |-> T0 - 60, seq |-> 0])}
    /\ _schedule = _load_entries_from_db(now)
    /\ _dirty = {}
    /\ _last_timestamp = None
    /\ _initial_read = TRUE
    /\ pc = "idle"
    /\ sync_pass = NoPass
    /\ admin = [pc |-> "idle", ops |-> 0]
    /\ db_results = <<>>
    /\ EntryQuiet

Init ==
    Booted({Some(Row("b", Some(2), None, TRUE)), Some(Row("b", None, Some(1), FALSE)),
            Some(Row("b", None, Some(2), FALSE))})

\* schedule_changed(): the answer and the _last_timestamp it leaves
schedule_changed ==
    LET ts == _get_changed_timestamp
        changed == /\ ts # None
                   /\ StampAfter(ts[1], IF _last_timestamp # None
                                        THEN _last_timestamp[1] ELSE ts[1])
    IN  [changed |-> changed,
         _last_timestamp |-> IF changed THEN _last_timestamp ELSE ts]

\* what a tick leaves of the notes on the previous one
tick_audit ==
    [audit EXCEPT !.sent = None,
                  !.delay = 0,
                  !.load = IF @ = "failed" /\ faults.storage = "up" /\ ~_initial_read
                           THEN "rechecked" ELSE @]

\* the schedule property without its sync(): the table is reloaded at once
schedule_without_sync ==
    /\ pc = "idle"
    /\ IF _initial_read
       THEN /\ _initial_read' = FALSE
            /\ pc' = "load"
            /\ sync_pass' = [why |-> "initial", saved |-> {}]
            /\ UNCHANGED _last_timestamp
       ELSE LET c == schedule_changed
            IN  /\ _last_timestamp' = c._last_timestamp
                /\ pc' = IF c.changed THEN "load" ELSE "due"
                /\ sync_pass' = IF c.changed THEN [why |-> "changed", saved |-> {}]
                                ELSE sync_pass
                /\ UNCHANGED _initial_read
    /\ audit' = tick_audit
    /\ UNCHANGED <<now, aside_vars, db_vars, _schedule, _dirty, admin, faults>>

\* the schedule property, up to its decision to update: tick() reads it first
schedule ==
    /\ pc = "idle"
    /\ IF _initial_read
       THEN /\ _initial_read' = FALSE
            /\ pc' = "sync"
            /\ sync_pass' = [why |-> "initial", saved |-> {}]
            /\ UNCHANGED _last_timestamp
       ELSE LET c == schedule_changed
            IN  /\ _last_timestamp' = c._last_timestamp
                /\ pc' = IF c.changed THEN "sync" ELSE "due"
                /\ sync_pass' = IF c.changed THEN [why |-> "changed", saved |-> {}]
                                ELSE sync_pass
                /\ UNCHANGED _initial_read
    /\ audit' = tick_audit
    /\ UNCHANGED <<now, aside_vars, db_vars, _schedule, _dirty, admin, faults>>

\* the loop calls sync() between ticks (sync_every)
periodic_sync ==
    /\ pc = "idle"
    /\ _dirty # {}
    /\ pc' = "psync"
    /\ sync_pass' = [why |-> "periodic", saved |-> {}]
    /\ UNCHANGED <<now, aside_vars, db_vars, _schedule, _dirty, _last_timestamp,
                   _initial_read, admin, env_vars>>

\* sync(): one turn of its loop, which pops a name and saves its entry;
\* _save_entry logs the exception of a failed write and returns
sync_one ==
    /\ pc \in {"sync", "psync", "csync"}
    /\ \E name \in _dirty :
          /\ _dirty' = _dirty \ {name}
          /\ IF name \in DOMAIN _schedule
             THEN /\ db_tasks' = _save_entry(_schedule[name])
                  /\ IF faults.storage = "up"
                     THEN /\ sync_pass' = [sync_pass EXCEPT !.saved = @ \cup {name}]
                          /\ audit' = [audit EXCEPT !.unsaved = @ \ {name}]
                     ELSE /\ sync_pass' = sync_pass
                          /\ audit' = [audit EXCEPT !.unsaved = @ \cup {name}]
             ELSE UNCHANGED <<db_tasks, sync_pass, audit>>
    /\ pc' = pc
    /\ UNCHANGED <<now, aside_vars, db_intervals, db_crontabs, db_changed, _schedule,
                   _last_timestamp, _initial_read, admin, faults>>

\* sync() that returns whatever is left in _dirty
sync_done_early ==
    /\ pc \in {"sync", "psync", "csync"}
    /\ pc' = CASE pc = "sync" -> "load" [] pc = "psync" -> "idle" [] pc = "csync" -> "closing"
    /\ sync_pass' = IF pc = "psync" THEN NoPass ELSE sync_pass
    /\ UNCHANGED <<now, aside_vars, db_vars, _schedule, _dirty, _last_timestamp,
                   _initial_read, admin, env_vars>>

\* sync() returns once _dirty is empty
sync_done ==
    /\ pc \in {"sync", "psync", "csync"}
    /\ _dirty = {}
    /\ pc' = CASE pc = "sync" -> "load" [] pc = "psync" -> "idle" [] pc = "csync" -> "closing"
    /\ sync_pass' = IF pc = "psync" THEN NoPass ELSE sync_pass
    /\ UNCHANGED <<now, aside_vars, db_vars, _schedule, _dirty, _last_timestamp,
                   _initial_read, admin, env_vars>>

\* the schedule property: self._schedule = _load_entries_from_db()
schedule_load ==
    /\ pc = "load"
    /\ _schedule' = _load_entries_from_db(now)
    /\ audit' = [audit EXCEPT !.load = IF faults.storage = "up" THEN "ok" ELSE "failed"]
    /\ pc' = "stamp"
    /\ UNCHANGED <<now, aside_vars, db_vars, _dirty, _last_timestamp, _initial_read,
                   sync_pass, admin, faults>>

\* the schedule property: self._last_timestamp = _get_changed_timestamp()
schedule_stamp ==
    /\ pc = "stamp"
    /\ _last_timestamp' = _get_changed_timestamp
    /\ pc' = "due"
    /\ sync_pass' = NoPass
    /\ audit' = [audit EXCEPT !.reset = {}]
    /\ UNCHANGED <<now, aside_vars, db_vars, _schedule, _dirty, _initial_read, admin,
                   faults>>

\* tick() that advances the entry only once the message has been sent
reserve_when_sent(name) ==
    /\ pc = "due"
    /\ name \in DOMAIN _schedule
    /\ is_due(_schedule[name].entry, _schedule[name].task_model, now).is_due
    /\ IF faults.broker = "up"
       THEN /\ _schedule' = [_schedule EXCEPT
                                ![name] = Entry__next__(@.entry, @.task_model, now)]
            /\ _dirty' = _dirty \cup {name}
       ELSE UNCHANGED <<_schedule, _dirty>>
    /\ audit' = [audit EXCEPT !.sent = Some([name |-> name, ok |-> faults.broker = "up"]),
                              !.fired = @ \cup {name}]
    /\ pc' = "idle"
    /\ UNCHANGED <<now, aside_vars, db_vars, _last_timestamp, _initial_read,
                   sync_pass, admin, faults>>

\* reserve() that replaces the entry and leaves _dirty as it is
reserve_not_dirty(name) ==
    /\ pc = "due"
    /\ name \in DOMAIN _schedule
    /\ is_due(_schedule[name].entry, _schedule[name].task_model, now).is_due
    /\ _schedule' = [_schedule EXCEPT
                        ![name] = Entry__next__(@.entry, @.task_model, now)]
    /\ audit' = [audit EXCEPT !.sent = Some([name |-> name, ok |-> faults.broker = "up"]),
                              !.fired = @ \cup {name}]
    /\ pc' = "idle"
    /\ UNCHANGED <<now, aside_vars, db_vars, _dirty, _last_timestamp, _initial_read,
                   sync_pass, admin, faults>>

\* tick() for the entry it found due: reserve(entry), then the message is
\* submitted, and an exception of the submission is logged
reserve(name) ==
    /\ pc = "due"
    /\ name \in DOMAIN _schedule
    /\ is_due(_schedule[name].entry, _schedule[name].task_model, now).is_due
    /\ _schedule' = [_schedule EXCEPT
                        ![name] = Entry__next__(@.entry, @.task_model, now)]
    /\ _dirty' = _dirty \cup {name}
    /\ audit' = [audit EXCEPT !.sent = Some([name |-> name, ok |-> faults.broker = "up"]),
                              !.fired = @ \cup {name}]
    /\ pc' = "idle"
    /\ UNCHANGED <<now, aside_vars, db_vars, _last_timestamp, _initial_read,
                   sync_pass, admin, faults>>

\* the waits is_due() gives for the entries of the table
waits(table, t) == {is_due(table[n].entry, table[n].task_model, t).next : n \in DOMAIN table}

\* tick() that returns the wait of the entries as it is
tick_uncapped(table, t) ==
    IF DOMAIN table = {} THEN DEFAULT_MAX_INTERVAL ELSE SetMin(waits(table, t))

\* tick(): the delay it returns when nothing is due, at most max_interval
tick(table, t) ==
    IF DOMAIN table = {} THEN DEFAULT_MAX_INTERVAL
    ELSE Min2(SetMin(waits(table, t)), DEFAULT_MAX_INTERVAL)

\* tick() found nothing due
tick_idle ==
    /\ pc = "due"
    /\ pc' = "idle"
    /\ audit' = [audit EXCEPT !.delay = tick(_schedule, now)]
    /\ UNCHANGED <<now, aside_vars, db_vars, _schedule, _dirty, _last_timestamp,
                   _initial_read, sync_pass, admin, faults>>

\* the loop sleeps and the clock moves on
clock_tick ==
    /\ pc = "idle"
    /\ now < T0 + MaxTicks
    /\ now' = now + 1
    /\ UNCHANGED <<entry_vars, sys_vars>>

\* close() that releases the connection without its sync()
close_without_sync ==
    /\ pc = "idle"
    /\ pc' = "closing"
    /\ sync_pass' = [why |-> "close", saved |-> {}]
    /\ UNCHANGED <<now, aside_vars, db_vars, _schedule, _dirty, _last_timestamp,
                   _initial_read, admin, env_vars>>

\* close(): self.sync() first
close ==
    /\ pc = "idle"
    /\ pc' = "csync"
    /\ sync_pass' = [why |-> "close", saved |-> {}]
    /\ UNCHANGED <<now, aside_vars, db_vars, _schedule, _dirty, _last_timestamp,
                   _initial_read, admin, env_vars>>

\* close(): _close_db() releases the connections
_close_db ==
    /\ pc = "closing"
    /\ pc' = "closed"
    /\ UNCHANGED <<now, aside_vars, db_vars, _schedule, _dirty, _last_timestamp,
                   _initial_read, sync_pass, admin, env_vars>>

(***************************************************************************)
(* The storage and the broker, as the loop finds them                      *)
(***************************************************************************)
storage_fails ==
    /\ faults.storage = "up"
    /\ faults.n < MaxFaults
    /\ pc # "closed"
    /\ faults' = [faults EXCEPT !.storage = "down", !.n = @ + 1]
    /\ UNCHANGED <<now, aside_vars, db_vars, sched_vars, admin, audit>>

storage_recovers ==
    /\ faults.storage = "down"
    /\ faults' = [faults EXCEPT !.storage = "up"]
    /\ UNCHANGED <<now, aside_vars, db_vars, sched_vars, admin, audit>>

broker_fails ==
    /\ faults.broker = "up"
    /\ faults.n < MaxFaults
    /\ pc # "closed"
    /\ faults' = [faults EXCEPT !.broker = "down", !.n = @ + 1]
    /\ UNCHANGED <<now, aside_vars, db_vars, sched_vars, admin, audit>>

broker_recovers ==
    /\ faults.broker = "down"
    /\ faults' = [faults EXCEPT !.broker = "up"]
    /\ UNCHANGED <<now, aside_vars, db_vars, sched_vars, admin, audit>>

(***************************************************************************)
(* The admin operations                                                    *)
(***************************************************************************)
\* the requests of the model
UpdateKwargs ==
    {[enabled |-> FALSE], [enabled |-> TRUE],
     [interval_id |-> Some(2)],
     [interval_id |-> None, crontab_id |-> Some(1)]}
\* the requests that arrive while the loop runs
ConcurrentKwargs == {[enabled |-> FALSE], [interval_id |-> Some(2)]}
CreateIntervalData ==
    {[every |-> e, period |-> p] : e \in {1, 3}, p \in {"seconds", "fortnights"}}
CreateCrontabData ==
    {[minute |-> "*", timezone |-> "Asia/Shanghai"], [minute |-> "0", timezone |-> "UTC"]}
CreateTaskData ==
    {[interval_id |-> iv, crontab_id |-> ct] : iv \in {None, Some(1)}, ct \in {None, Some(1)}}
UpdateIntervalData ==
    {<<>>, [every |-> 2], [every |-> 3], [every |-> 0], [period |-> "fortnights"]}
UpdateCrontabData == {<<>>, [minute |-> "0"], [timezone |-> "Mars/Olympus"]}

\* a request that ends without a write
admin_returns == admin' = [pc |-> "idle", ops |-> admin.ops + 1]
\* a request that goes on to PeriodicTaskChanged.update_changed()
admin_to_bump == admin' = [pc |-> "bump", ops |-> admin.ops + 1]

\* the id a new row gets
NewId(table) == SetMin({i \in DOMAIN table : table[i] = None})

\* create_interval that inserts a row whether or not one with these values exists
create_interval_insert(data) ==
    /\ admin.pc = "idle"
    /\ admin.ops < MaxAdminOps
    /\ \E i \in IntervalIds : db_intervals[i] = None
    /\ IF data.period \notin Periods
       THEN /\ UNCHANGED db_intervals
            /\ admin' = [pc |-> "idle", ops |-> admin.ops + 1, req |-> data, ret |-> None]
       ELSE /\ db_intervals' = [db_intervals EXCEPT ![NewId(db_intervals)] = Some(data)]
            /\ admin' = [pc |-> "idle", ops |-> admin.ops + 1, req |-> data,
                         ret |-> Some(NewId(db_intervals))]
    /\ UNCHANGED <<now, aside_vars, db_tasks, db_crontabs, db_changed, sched_vars, env_vars>>

\* create_interval: ValueError for an unknown period, else get_or_create on
\* (every, period); the request and the id of the row returned (None for the
\* error) are kept; no marker write
create_interval(data) ==
    /\ admin.pc = "idle"
    /\ admin.ops < MaxAdminOps
    /\ \E i \in IntervalIds : db_intervals[i] = None
    /\ IF data.period \notin Periods
       THEN /\ UNCHANGED db_intervals
            /\ admin' = [pc |-> "idle", ops |-> admin.ops + 1, req |-> data, ret |-> None]
       ELSE IF \E i \in IntervalIds : db_intervals[i] = Some(data)
       THEN /\ UNCHANGED db_intervals
            /\ admin' = [pc |-> "idle", ops |-> admin.ops + 1, req |-> data,
                         ret |-> Some(CHOOSE i \in IntervalIds : db_intervals[i] = Some(data))]
       ELSE /\ db_intervals' = [db_intervals EXCEPT ![NewId(db_intervals)] = Some(data)]
            /\ admin' = [pc |-> "idle", ops |-> admin.ops + 1, req |-> data,
                         ret |-> Some(NewId(db_intervals))]
    /\ UNCHANGED <<now, aside_vars, db_tasks, db_crontabs, db_changed, sched_vars, env_vars>>

\* delete_interval: the row is deleted, the jobs that referenced it keep a
\* null interval (SET_NULL), and the marker is bumped if a row was deleted
delete_interval(id) ==
    /\ admin.pc = "idle"
    /\ admin.ops < MaxAdminOps
    /\ IF db_intervals[id] # None
       THEN /\ db_intervals' = [db_intervals EXCEPT ![id] = None]
            /\ db_tasks' = [n \in TaskNames |->
                              IF db_tasks[n] # None /\ db_tasks[n][1].interval_id = Some(id)
                              THEN Some([db_tasks[n][1] EXCEPT !.interval_id = None])
                              ELSE db_tasks[n]]
            /\ admin_to_bump
       ELSE /\ UNCHANGED <<db_intervals, db_tasks>>
            /\ admin_returns
    /\ UNCHANGED <<now, aside_vars, db_crontabs, db_changed, sched_vars, env_vars>>

\* create_crontab: a new row; no marker write
create_crontab(data) ==
    /\ admin.pc = "idle"
    /\ admin.ops < MaxAdminOps
    /\ \E i \in CrontabIds : db_crontabs[i] = None
    /\ db_crontabs' = [db_crontabs EXCEPT ![NewId(db_crontabs)] = Some(data)]
    /\ admin_returns
    /\ UNCHANGED <<now, aside_vars, db_tasks, db_intervals, db_changed, sched_vars, env_vars>>

\* delete_crontab
delete_crontab(id) ==
    /\ admin.pc = "idle"
    /\ admin.ops < MaxAdminOps
    /\ IF db_crontabs[id] # None
       THEN /\ db_crontabs' = [db_crontabs EXCEPT ![id] = None]
            /\ db_tasks' = [n \in TaskNames |->
                              IF db_tasks[n] # None /\ db_tasks[n][1].crontab_id = Some(id)
                              THEN Some([db_tasks[n][1] EXCEPT !.crontab_id = None])
                              ELSE db_tasks[n]]
            /\ admin_to_bump
       ELSE /\ UNCHANGED <<db_crontabs, db_tasks>>
            /\ admin_returns
    /\ UNCHANGED <<now, aside_vars, db_intervals, db_changed, sched_vars, env_vars>>

\* create_periodic_task: ValueError for neither or both schedules, an
\* integrity error for a name that exists, else the row and then the marker
create_periodic_task(name, data) ==
    /\ admin.pc = "idle"
    /\ admin.ops < MaxAdminOps
    /\ IF \/ data.interval_id = None /\ data.crontab_id = None
          \/ data.interval_id # None /\ data.crontab_id # None
          \/ db_tasks[name] # None
       THEN /\ UNCHANGED db_tasks
            /\ admin_returns
       ELSE /\ db_tasks' = [db_tasks EXCEPT
                               ![name] = Some(Row(name, data.interval_id, data.crontab_id, FALSE))]
            /\ admin_to_bump
    /\ UNCHANGED <<now, aside_vars, db_intervals, db_crontabs, db_changed, sched_vars, env_vars>>

\* update_periodic_task: task = PeriodicTask.get(id=task_id)
update_periodic_task_get(name, kwargs) ==
    /\ admin.pc = "idle"
    /\ admin.ops < MaxAdminOps
    /\ db_tasks[name] # None
    /\ admin' = [pc |-> "got", ops |-> admin.ops + 1, task |-> db_tasks[name][1],
                 kwargs |-> kwargs]
    /\ UNCHANGED <<now, aside_vars, db_vars, sched_vars, env_vars>>

\* update_periodic_task: the fields are set, last_run_at is reset when the
\* schedule reference changes, and task.save() writes the whole row
update_periodic_task_save ==
    /\ admin.pc = "got"
    /\ LET task == admin.task
           kwargs == admin.kwargs
           has(k) == k \in DOMAIN kwargs
           schedule_changed_ ==
               \/ has("interval_id") /\ kwargs.interval_id # task.interval_id
               \/ has("crontab_id") /\ kwargs.crontab_id # task.crontab_id
           set == [k \in DOMAIN task |-> IF has(k) THEN kwargs[k] ELSE task[k]]
           saved == IF schedule_changed_ THEN [set EXCEPT !.last_run_at = None] ELSE set
       IN  /\ db_tasks' = [db_tasks EXCEPT ![task.name] = Some(saved)]
           /\ audit' = [audit EXCEPT !.reset = IF schedule_changed_ /\ task.name \in _dirty
                                                THEN @ \cup {task.name} ELSE @]
    /\ admin' = [pc |-> "bump", ops |-> admin.ops]
    /\ UNCHANGED <<now, aside_vars, db_intervals, db_crontabs, db_changed, sched_vars,
                   faults>>

\* delete_periodic_task: the row is deleted, and the marker bumped if it was there
delete_periodic_task(name) ==
    /\ admin.pc = "idle"
    /\ admin.ops < MaxAdminOps
    /\ db_tasks[name] # None
    /\ db_tasks' = [db_tasks EXCEPT ![name] = None]
    /\ admin_to_bump
    /\ UNCHANGED <<now, aside_vars, db_intervals, db_crontabs, db_changed, sched_vars,
                   env_vars>>

\* update_from_dict: the row with the fields of the request set
update_from_dict(row, data) ==
    [k \in DOMAIN row |-> IF k \in DOMAIN data THEN data[k] ELSE row[k]]

\* unique_together (every, period): another row holds these values, and the
\* save raises
IntervalTaken(id, row) ==
    \E i \in IntervalIds \ {id} : db_intervals[i] = Some(row)

\* IntervalScheduleUpdate: every, when given, is greater than 0 (the request
\* is answered 422 otherwise)
IntervalScheduleUpdate_rejects(data) ==
    "every" \in DOMAIN data /\ ~(data.every > 0)

\* update_interval that writes the marker together with the schedule row
update_interval_save_and_bump(id, data) ==
    /\ admin.pc = "idle"
    /\ admin.ops < MaxAdminOps
    /\ db_intervals[id] # None
    /\ IF \/ DOMAIN data = {}
          \/ IntervalScheduleUpdate_rejects(data)
          \/ IntervalTaken(id, update_from_dict(db_intervals[id][1], data))
       THEN /\ UNCHANGED <<db_intervals, db_changed>>
            /\ admin' = [pc |-> "idle", ops |-> admin.ops + 1, upd |-> data]
       ELSE /\ db_intervals' = [db_intervals EXCEPT
                                   ![id] = Some(update_from_dict(@[1], data))]
            /\ db_changed' = update_changed
            /\ admin' = [pc |-> "reset", ops |-> admin.ops + 1, id |-> id, upd |-> data]
    /\ UNCHANGED <<now, aside_vars, db_tasks, db_crontabs, sched_vars, env_vars>>

\* update_interval: the fields of the request are saved into the row; nothing
\* is written for a request the schema rejects, for an empty request or
\* when the save raises
update_interval_save(id, data) ==
    /\ admin.pc = "idle"
    /\ admin.ops < MaxAdminOps
    /\ db_intervals[id] # None
    /\ IF \/ DOMAIN data = {}
          \/ IntervalScheduleUpdate_rejects(data)
          \/ IntervalTaken(id, update_from_dict(db_intervals[id][1], data))
       THEN /\ UNCHANGED db_intervals
            /\ admin' = [pc |-> "idle", ops |-> admin.ops + 1, upd |-> data]
       ELSE /\ db_intervals' = [db_intervals EXCEPT
                                   ![id] = Some(update_from_dict(@[1], data))]
            /\ admin' = [pc |-> "reset", ops |-> admin.ops + 1, id |-> id, upd |-> data]
    /\ UNCHANGED <<now, aside_vars, db_tasks, db_crontabs, db_changed, sched_vars, env_vars>>

\* update_interval that resets the last_run_at of every job
update_interval_reset_all ==
    /\ admin.pc = "reset"
    /\ "id" \in DOMAIN admin
    /\ db_tasks' = [n \in TaskNames |->
                      IF db_tasks[n] # None
                      THEN Some([db_tasks[n][1] EXCEPT !.last_run_at = None])
                      ELSE db_tasks[n]]
    /\ audit' = [audit EXCEPT !.reset = @ \cup {n \in _dirty : db_tasks[n] # None}]
    /\ admin' = [pc |-> "bump", ops |-> admin.ops]
    /\ UNCHANGED <<now, aside_vars, db_intervals, db_crontabs, db_changed, sched_vars,
                   faults>>

\* update_interval: PeriodicTask.filter(interval_id=id).update(last_run_at=None)
update_interval_reset ==
    /\ admin.pc = "reset"
    /\ "id" \in DOMAIN admin
    /\ db_tasks' = [n \in TaskNames |->
                      IF db_tasks[n] # None /\ db_tasks[n][1].interval_id = Some(admin.id)
                      THEN Some([db_tasks[n][1] EXCEPT !.last_run_at = None])
                      ELSE db_tasks[n]]
    /\ audit' = [audit EXCEPT !.reset = @ \cup {n \in _dirty :
                                  db_tasks[n] # None
                                  /\ db_tasks[n][1].interval_id = Some(admin.id)}]
    /\ admin' = [pc |-> "bump", ops |-> admin.ops]
    /\ UNCHANGED <<now, aside_vars, db_intervals, db_crontabs, db_changed, sched_vars,
                   faults>>

\* update_crontab: the fields of the request are saved into the row; nothing
\* is written for an empty request
update_crontab_save(id, data) ==
    /\ admin.pc = "idle"
    /\ admin.ops < MaxAdminOps
    /\ db_crontabs[id] # None
    /\ IF DOMAIN data = {}
       THEN /\ UNCHANGED db_crontabs
            /\ admin' = [pc |-> "idle", ops |-> admin.ops + 1, upd |-> data]
       ELSE /\ db_crontabs' = [db_crontabs EXCEPT
                                  ![id] = Some(update_from_dict(@[1], data))]
            /\ admin' = [pc |-> "reset", ops |-> admin.ops + 1, cid |-> id, upd |-> data]
    /\ UNCHANGED <<now, aside_vars, db_tasks, db_intervals, db_changed, sched_vars, env_vars>>

\* update_crontab: PeriodicTask.filter(crontab_id=id).update(last_run_at=None)
update_crontab_reset ==
    /\ admin.pc = "reset"
    /\ "cid" \in DOMAIN admin
    /\ db_tasks' = [n \in TaskNames |->
                      IF db_tasks[n] # None /\ db_tasks[n][1].crontab_id = Some(admin.cid)
                      THEN Some([db_tasks[n][1] EXCEPT !.last_run_at = None])
                      ELSE db_tasks[n]]
    /\ audit' = [audit EXCEPT !.reset = @ \cup {n \in _dirty :
                                  db_tasks[n] # None
                                  /\ db_tasks[n][1].crontab_id = Some(admin.cid)}]
    /\ admin' = [pc |-> "bump", ops |-> admin.ops]
    /\ UNCHANGED <<now, aside_vars, db_intervals, db_crontabs, db_changed, sched_vars,
                   faults>>

\* the last step of a mutation: PeriodicTaskChanged.update_changed()
admin_update_changed ==
    /\ admin.pc = "bump"
    /\ db_changed' = update_changed
    /\ admin' = [pc |-> "idle", ops |-> admin.ops]
    /\ UNCHANGED <<now, aside_vars, db_tasks, db_intervals, db_crontabs, sched_vars,
                   env_vars>>

(***************************************************************************)
(* The specifications                                                      *)
(***************************************************************************)
Next ==
    \/ schedule
    \/ periodic_sync
    \/ sync_one
    \/ sync_done
    \/ schedule_load
    \/ schedule_stamp
    \/ \E name \in TaskNames : reserve(name)
    \/ tick_idle
    \/ clock_tick
    \/ \E name \in TaskNames, kwargs \in ConcurrentKwargs :
          update_periodic_task_get(name, kwargs)
    \/ update_periodic_task_save
    \/ \E name \in TaskNames : delete_periodic_task(name)
    \/ update_interval_save(1, [every |-> 3])
    \/ update_interval_reset
    \/ admin_update_changed

Spec == Init /\ [][Next]_vars

\* a job whose crontab names a timezone pytz does not know is among the rows
FaultInit ==
    Booted({Some(Row("b", Some(2), None, TRUE)), Some(Row("b", None, Some(2), FALSE))})

FaultNext ==
    \/ schedule
    \/ periodic_sync
    \/ sync_one
    \/ sync_done
    \/ schedule_load
    \/ schedule_stamp
    \/ \E name \in TaskNames : reserve(name)
    \/ tick_idle
    \/ clock_tick
    \/ close
    \/ _close_db
    \/ storage_fails
    \/ storage_recovers
    \/ broker_fails
    \/ broker_recovers

FaultSpec == FaultInit /\ [][FaultNext]_vars

\* a row whose job ran a minute before the initial instant
Ran(row) == [row EXCEPT !.last_run_at = Some(T0 - 60), !.total_run_count = 1]

AdminInit ==
    Booted({None, Some(Row("b", None, Some(1), FALSE)),
            Some(Ran(Row("b", Some(1), None, FALSE))),
            Some(Ran(Row("b", None, Some(1), FALSE)))})

AdminNext ==
    \/ \E data \in CreateIntervalData : create_interval(data)
    \/ \E id \in IntervalIds : delete_interval(id)
    \/ \E data \in CreateCrontabData : create_crontab(data)
    \/ \E id \in CrontabIds : delete_crontab(id)
    \/ \E name \in TaskNames, data \in CreateTaskData : create_periodic_task(name, data)
    \/ \E name \in TaskNames, kwargs \in UpdateKwargs : update_periodic_task_get(name, kwargs)
    \/ update_periodic_task_save
    \/ \E name \in TaskNames : delete_periodic_task(name)
    \/ \E id \in IntervalIds, data \in UpdateIntervalData : update_interval_save(id, data)
    \/ update_interval_reset
    \/ \E id \in CrontabIds, data \in UpdateCrontabData : update_crontab_save(id, data)
    \/ update_crontab_reset
    \/ admin_update_changed

AdminSpec == AdminInit /\ [][AdminNext]_vars

(***************************************************************************)
(* ExternalSpec: the loop, which never stops ticking, and a writer that    *)
(* changes job rows without PeriodicTaskChanged.update_changed()           *)
(* (disable_task and enable_task of tests/test_periodic_tasks.py).         *)
(***************************************************************************)
\* disable_task: task = PeriodicTask.filter(name=task_name).first()
disable_task(name) ==
    /\ admin.pc = "idle"
    /\ admin.ops < MaxAdminOps
    /\ db_tasks[name] # None
    /\ admin' = [pc |-> "first", ops |-> admin.ops + 1,
                 task |-> [db_tasks[name][1] EXCEPT !.enabled = FALSE]]
    /\ UNCHANGED <<now, aside_vars, db_vars, sched_vars, env_vars>>

\* enable_task: task = PeriodicTask.filter(name=task_name).first()
enable_task(name) ==
    /\ admin.pc = "idle"
    /\ admin.ops < MaxAdminOps
    /\ db_tasks[name] # None
    /\ admin' = [pc |-> "first", ops |-> admin.ops + 1,
                 task |-> [db_tasks[name][1] EXCEPT !.enabled = TRUE]]
    /\ UNCHANGED <<now, aside_vars, db_vars, sched_vars, env_vars>>

\* disable_task, enable_task: task.save() writes the row; the marker is not
\* written
task_save ==
    /\ admin.pc = "first"
    /\ db_tasks' = [db_tasks EXCEPT ![admin.task.name] = Some(admin.task)]
    /\ admin' = [pc |-> "idle", ops |-> admin.ops]
    /\ UNCHANGED <<now, aside_vars, db_intervals, db_crontabs, db_changed, sched_vars,
                   env_vars>>

\* the steps of the loop: a tick, the sync between ticks
LoopNext ==
    \/ schedule
    \/ periodic_sync
    \/ sync_one
    \/ sync_done
    \/ schedule_load
    \/ schedule_stamp
    \/ \E name \in TaskNames : reserve(name)
    \/ tick_idle

ExternalInit ==
    Booted({Some(Row("b", Some(2), None, TRUE)), Some(Row("b", None, Some(1), FALSE))})

ExternalNext ==
    \/ LoopNext
    \/ clock_tick
    \/ \E name \in TaskNames : disable_task(name)
    \/ \E name \in TaskNames : enable_task(name)
    \/ task_save

\* beat runs the loop until it is stopped
ExternalSpec == ExternalInit /\ [][ExternalNext]_vars /\ WF_vars(LoopNext)

(***************************************************************************)
(* ResultSpec: the two functions that record the result of a task run      *)
(* (celery_app/celery.py, TaskSchedulerService) on table                   *)
(* celery_task_result.                                                     *)
(***************************************************************************)
ResultIds == {"t1", "t2"}
Statuses == {"PENDING", "STARTED", "SUCCESS", "FAILURE", "RETRY", "REVOKED"}

\* TaskResult.get_or_create(task_id=..., defaults={...}): the defaults carry
\* the status and no date_done
TaskResult_create(status) == [status |-> status, date_done |-> None]

\* celery.py _save_task_result, called by the signal handlers of the worker
_save_task_result(task_id, status) ==
    /\ db_results' =
          [db_results EXCEPT ![task_id] =
              IF @ = None THEN Some(TaskResult_create(status))
              ELSE Some([status |-> status,
                         date_done |-> IF status \in {"SUCCESS", "FAILURE", "REVOKED"}
                                       THEN Some(now) ELSE @[1].date_done])]
    /\ UNCHANGED <<now, entry_vars, db_vars, sched_vars, admin, env_vars>>

\* TaskSchedulerService.save_task_result
save_task_result(task_id, status) ==
    /\ db_results' =
          [db_results EXCEPT ![task_id] =
              IF @ = None THEN Some(TaskResult_create(status))
              ELSE Some([status |-> status,
                         date_done |-> IF status \in {"SUCCESS", "FAILURE"}
                                       THEN Some(now) ELSE @[1].date_done])]
    /\ UNCHANGED <<now, entry_vars, db_vars, sched_vars, admin, env_vars>>

ResultInit ==
    /\ now = T0
    /\ db_tasks = <<>> /\ db_intervals = <<>> /\ db_crontabs = <<>> /\ db_changed = None
    /\ _schedule = <<>> /\ _dirty = {} /\ _last_timestamp = None /\ _initial_read = TRUE
    /\ pc = "idle" /\ sync_pass = NoPass
    /\ admin = [pc |-> "idle", ops |-> 0]
    /\ faults = NoFaults /\ audit = NoAudit
    /\ db_results = [id \in ResultIds |-> None]
    /\ EntryQuiet

ResultNext ==
    \/ \E id \in ResultIds, status \in Statuses : _save_task_result(id, status)
    \/ \E id \in ResultIds, status \in Statuses : save_task_result(id, status)

ResultSpec == ResultInit /\ [][ResultNext]_vars


(***************************************************************************)
(* Properties of the scheduler loop, checked under Spec                    *)
(***************************************************************************)
\* C1: the table is replaced only after sync() has emptied _dirty, and every
\* name sync() takes out of _dirty has the last_run_at and total_run_count of
\* its entry written to its row (when the row still exists): no statistics of
\* a dispatch are dropped by a reload.
C1_SyncBeforeReload ==
    [][/\ (pc = "load" /\ pc' # "load") => _dirty = {}
       /\ \A n \in TaskNames :
             (n \in _dirty /\ n \notin _dirty' /\ db_tasks[n] # None) =>
                 /\ n \in DOMAIN _schedule
                 /\ db_tasks'[n] # None
                 /\ db_tasks'[n][1].last_run_at = _schedule[n].task_model.last_run_at
                 /\ db_tasks'[n][1].total_run_count = _schedule[n].task_model.total_run_count
                 /\ db_tasks'[n][1].total_run_count > 0]_vars

C1_Witness ==
    /\ pc = "load"
    /\ sync_pass.why = "changed"
    /\ _dirty = {}
    /\ \E n \in sync_pass.saved :
          /\ db_tasks[n] # None
          /\ db_tasks[n][1].total_run_count = 1
          /\ db_tasks[n][1].last_run_at = _schedule[n].task_model.last_run_at
          /\ _schedule[n].entry.total_run_count = 1

(***************************************************************************)
(* Properties of a Job Entry, checked under EntrySpec                      *)
(***************************************************************************)
Entries == 1 .. Len(ents)
DueOf(i) == is_due(ents[i].entry, task_model, now)
Started(tm, t) == tm.start_time = None \/ t >= tm.start_time[1]
Expired(tm, t) == tm.expires # None /\ t >= tm.expires[1]
Eligible(tm, t) ==
    tm.enabled /\ Started(tm, t) /\ ~Expired(tm, t) /\ ~(tm.one_off /\ tm.total_run_count > 0)
IntervalOnly(tm) == tm.interval # None /\ tm.crontab = None

\* C2: once __next__() has been called for a one-off job, is_due() reports not
\* due on every entry of that job, at every later time and whatever the
\* schedule; when the job was due at its first __next__() (the only way the
\* scheduler calls it), the recheck delay is 86400 s.
C2_OneOffEligibleOnce ==
    (task_model.one_off /\ Len(ents) > 1) =>
        \A i \in Entries :
            /\ ~DueOf(i).is_due
            /\ fired_when_due => DueOf(i) = schedstate(FALSE, 86400)

C2_Witness ==
    /\ task_model.one_off /\ fired_when_due
    /\ ents[1].entry.total_run_count = 0
    /\ Len(ents) = 3 /\ ents[3].parent = 2
    /\ now > ents[3].entry.last_run_at
    /\ op.kind = "is_due" /\ op.idx = 3
    /\ op.result = schedstate(FALSE, 86400)

\* C3: a disabled job is never due and is rechecked after 5 s, whatever its
\* last_run_at, total_run_count, start_time, expires, one_off and schedule.
C3_DisabledIsNotDue ==
    \A i \in Entries :
        ~task_model.enabled => DueOf(i) = schedstate(FALSE, 5)

C3_Witness ==
    /\ ~task_model.enabled
    /\ Expired(task_model, now)
    /\ task_model.one_off /\ task_model.total_run_count > 0
    /\ op.kind = "is_due"
    /\ op.result = schedstate(FALSE, 5)

\* C4: an enabled, started, unexpired job that is not a spent one-off and runs
\* every N seconds is due iff at least N seconds have passed since last_run_at
\* (due at N + 1, not due at N - 1), and when not due the wait is what is left
\* of the N seconds.
C4_IntervalSecondsDue ==
    \A i \in Entries :
        (/\ Eligible(task_model, now)
         /\ IntervalOnly(task_model)
         /\ task_model.interval[1].period = "seconds") =>
            LET N == task_model.interval[1].every
                elapsed == now - ents[i].entry.last_run_at
                r == DueOf(i)
            IN  /\ r.is_due <=> elapsed >= N
                /\ ~r.is_due => r.next = N - elapsed
                /\ elapsed = N + 1 => r.is_due
                /\ elapsed = N - 1 => ~r.is_due

C4_Witness ==
    /\ Eligible(task_model, now)
    /\ IntervalOnly(task_model)
    /\ task_model.interval[1].period = "seconds"
    /\ task_model.interval[1].every > 1
    /\ now - ents[1].entry.last_run_at = task_model.interval[1].every + 1
    /\ op.kind = "is_due" /\ op.idx = 1
    /\ op.result.is_due

\* C5 as claimed: the first is_due() of an enabled, started, unexpired,
\* never-run interval job whose row had a null last_run_at reports due.
C5_NullLastRunIsDue ==
    (/\ Len(ents) = 1
     /\ ents[1].null_last_run
     /\ task_model.total_run_count = 0
     /\ Eligible(task_model, now)
     /\ IntervalOnly(task_model)
     /\ op.kind = "is_due" /\ op.at = now) =>
        op.result.is_due

\* C6 as claimed: __next__() leaves the task_model as the first entry read it,
\* and every successor counts one run more than the entry it was made from.
C6_AdvanceIsPure ==
    /\ task_model.total_run_count = ents[1].entry.total_run_count
    /\ \A j \in Entries :
          ents[j].parent # 0 =>
              ents[j].entry.total_run_count = ents[ents[j].parent].entry.total_run_count + 1

\* C6 amended: __next__() returns a new entry and leaves the attributes of the
\* entries built before as they were, but it writes last_run_at = now and
\* total_run_count + 1 into the task_model all these entries share; the k-th
\* __next__() on entries of one task_model returns total_run_count = first + k.
C6_AdvanceWritesTaskModel ==
    [][Len(ents') = Len(ents) + 1 =>
          LET new == ents'[Len(ents')].entry
          IN  /\ \A j \in Entries : ents'[j] = ents[j]
              /\ task_model' = [task_model EXCEPT
                                   !.last_run_at = Some(now),
                                   !.total_run_count = task_model.total_run_count + 1]
              /\ new.last_run_at = now
              /\ new.total_run_count = task_model'.total_run_count
              /\ new.total_run_count = ents[1].entry.total_run_count + Len(ents)]_vars

C6_Witness ==
    /\ Len(ents) = 3 /\ ents[2].parent = 1 /\ ents[3].parent = 1
    /\ ents[2].entry.total_run_count = ents[1].entry.total_run_count + 1
    /\ ents[3].entry.total_run_count = ents[1].entry.total_run_count + 2
    /\ task_model.one_off /\ fired_when_due
    /\ ~DueOf(1).is_due

\* C7: __next__() returns an entry with last_run_at = now and one run more than
\* the task_model (and than the entry, when called on the newest entry); for a
\* job that runs every P seconds and is still eligible, is_due() on that entry
\* at the same instant reports not due with wait P.
C7_AdvanceThenNotDue ==
    [][Len(ents') = Len(ents) + 1 =>
          LET new == ents'[Len(ents')].entry
              p == ents'[Len(ents')].parent
          IN  /\ new.last_run_at = now
              /\ new.total_run_count = task_model.total_run_count + 1
              /\ p = Len(ents) => new.total_run_count = ents[p].entry.total_run_count + 1
              /\ (IntervalOnly(task_model') /\ Eligible(task_model', now')) =>
                     is_due(new, task_model', now') =
                         schedstate(FALSE, timedelta(task_model.interval[1].period,
                                                     task_model.interval[1].every))]_vars

C7_Witness ==
    /\ Len(ents) = 2
    /\ ents[1].null_last_run /\ fired_when_due
    /\ IntervalOnly(task_model) /\ ~task_model.one_off
    /\ task_model.interval[1].period = "seconds"
    /\ now = ents[2].entry.last_run_at
    /\ op.kind = "is_due" /\ op.idx = 2
    /\ op.result = schedstate(FALSE, task_model.interval[1].every)

\* C8 as claimed: an eligible every-minute crontab job last run 61 s ago is due
\* at second 0 of the minute, and at second 30 is not due with a wait of at
\* most 5 s.
C8_EveryMinuteDueAtSecondZero ==
    \A i \in Entries :
        (/\ Eligible(task_model, now)
         /\ task_model.interval = None /\ task_model.crontab # None
         /\ task_model.crontab[1].minute = "*"
         /\ now - ents[i].entry.last_run_at = 61
         /\ op.kind = "is_due" /\ op.idx = i /\ op.at = now) =>
            /\ now % 60 = 0 => op.result.is_due
            /\ now % 60 = 30 => (~op.result.is_due /\ op.result.next <= 5)

\* C9: is_due() on an enabled, started job whose expires has passed returns
\* (not due, 86400 s) whatever the schedule, last_run_at, one_off and
\* total_run_count, and the call changes neither the task_model nor an entry.
C9_ExpiredIsDormant ==
    [][\A i \in Entries :
          (/\ op' # op /\ op'.kind = "is_due" /\ op'.idx = i
           /\ task_model.enabled
           /\ Started(task_model, now)
           /\ Expired(task_model, now)) =>
              /\ op'.result = schedstate(FALSE, 86400)
              /\ task_model' = task_model
              /\ ents' = ents]_vars

C9_Witness ==
    /\ task_model.enabled /\ Started(task_model, now) /\ Expired(task_model, now)
    /\ ~task_model.one_off
    /\ raw_is_due(ents[1].entry.schedule, ents[1].entry.last_run_at, now).is_due
    /\ op.kind = "is_due" /\ op.idx = 1
    /\ op.result = schedstate(FALSE, 86400)

\* C10: is_due() answers with the first gate that matches, in the order
\* disabled (5 s), start_time in the future (max(1, seconds left)), expired
\* (86400 s), one-off already run (86400 s), and else with the schedule's
\* answer, which for a job with a crontab passes the 1 s window gate.
C10_GateOrder ==
    \A i \in Entries :
        LET tm == task_model
            r == DueOf(i)
            raw == raw_is_due(ents[i].entry.schedule, ents[i].entry.last_run_at, now)
        IN  /\ ~tm.enabled => r = schedstate(FALSE, 5)
            /\ (tm.enabled /\ ~Started(tm, now)) =>
                   /\ r = schedstate(FALSE, Max2(1, tm.start_time[1] - now))
                   /\ Expired(tm, now) => r.next # 86400
            /\ (tm.enabled /\ Started(tm, now) /\ Expired(tm, now)) =>
                   r = schedstate(FALSE, 86400)
            /\ (tm.enabled /\ Started(tm, now) /\ ~Expired(tm, now)
                /\ tm.one_off /\ tm.total_run_count > 0) =>
                   r = schedstate(FALSE, 86400)
            /\ Eligible(tm, now) =>
                   \/ r = raw
                   \/ /\ tm.crontab # None /\ raw.is_due /\ raw.next > 1
                      /\ r = schedstate(FALSE, Min2(raw.next, 5))

C10_Witness ==
    /\ task_model.enabled
    /\ ~Started(task_model, now)
    /\ Expired(task_model, now)
    /\ op.kind = "is_due"
    /\ op.result = schedstate(FALSE, task_model.start_time[1] - now)
    /\ op.result.next # 86400

\* the job has a crontab and no interval
CrontabOnly(tm) == tm.interval = None /\ tm.crontab # None

\* C31: for a crontab job that passes the enabled, start_time, expires and
\* one-off tests, is_due() reports due only when the crontab reports due with
\* at most 1 s to its next occurrence; when the crontab reports due with more
\* than 1 s left, the answer is not due with a wait of min(that time, 5); and
\* when the crontab reports not due, its answer is returned as it is.
C31_CrontabWindowGate ==
    \A i \in Entries :
        (Eligible(task_model, now) /\ CrontabOnly(task_model)) =>
            LET r == DueOf(i)
                raw == crontab_is_due(ents[i].entry.schedule, ents[i].entry.last_run_at, now)
            IN  /\ r.is_due => (raw.is_due /\ raw.next <= 1)
                /\ (raw.is_due /\ raw.next <= 1) => r = raw
                /\ (raw.is_due /\ raw.next > 1) => r = schedstate(FALSE, Min2(raw.next, 5))
                /\ ~raw.is_due => r = raw

\* a crontab job is reported due one second before the minute
C31_Witness ==
    /\ Eligible(task_model, now) /\ CrontabOnly(task_model)
    /\ task_model.crontab[1].minute = "*"
    /\ Len(ents) = 1
    /\ now % 60 = 59
    /\ op.kind = "is_due" /\ op.at = now
    /\ op.result = schedstate(TRUE, 1)

\* the occurrence a dispatch at instant t serves: the first after t
Occurrence(s, t) == crontab_next(s, t)

\* C36: every dispatch of an enabled crontab job is made within 1 s of an
\* occurrence, no two dispatches serve the same occurrence, and the
\* successor of a dispatch is not reported due before the last second ahead
\* of the occurrence after the one served.
C36_OncePerOccurrence ==
    /\ \A j \in Entries :
          ents[j].parent # 0 =>
              LET s == ents[j].entry.schedule
                  l == ents[j].entry.last_run_at
              IN  /\ Occurrence(s, l) - l <= CrontabThreshold
                  /\ \A i \in Entries :
                        (i < j /\ ents[i].parent # 0) =>
                            Occurrence(s, ents[i].entry.last_run_at) < Occurrence(s, l)
    /\ (op.kind = "is_due" /\ op.result.is_due /\ ents[op.idx].parent # 0) =>
          LET s == ents[op.idx].entry.schedule
              l == ents[op.idx].entry.last_run_at
          IN  op.at >= Occurrence(s, Occurrence(s, l)) - CrontabThreshold

\* two dispatches of an every-minute job, one minute apart
C36_Witness ==
    /\ Len(ents) = 3
    /\ task_model.crontab[1].minute = "*"
    /\ ents[2].parent = 1 /\ ents[3].parent = 2
    /\ ents[3].entry.last_run_at = ents[2].entry.last_run_at + 60
    /\ op.kind = "is_due" /\ op.idx = 3 /\ ~op.result.is_due
    /\ op.at = ents[3].entry.last_run_at + 1

\* C35 as claimed: an entry whose resolved schedule is an interval answers as
\* the interval schedule does once it has passed the enabled, start_time,
\* expires and one-off tests, whether or not its row has a crontab too.
C35_GateFollowsResolvedSchedule ==
    \A i \in Entries :
        (Eligible(task_model, now) /\ ents[i].entry.schedule.type = "schedule") =>
            DueOf(i) = schedule_is_due(ents[i].entry.schedule, ents[i].entry.last_run_at, now)

(***************************************************************************)
(* Properties of the admin operations racing with the loop (Spec)          *)
(***************************************************************************)
\* C11: the save of an update that changes the interval or crontab reference
\* of the stored row leaves the stored last_run_at null, and the save of an
\* update that changes neither reference leaves the stored last_run_at as it
\* was; the marker write follows the save.
C11_UpdateResetsOrKeepsLastRun ==
    [][(admin.pc = "got" /\ admin'.pc = "bump") =>
          LET stored == db_tasks[admin.task.name][1]
              after == db_tasks'[admin.task.name][1]
          IN  IF after.interval_id # stored.interval_id
                 \/ after.crontab_id # stored.crontab_id
              THEN after.last_run_at = None
              ELSE after.last_run_at = stored.last_run_at]_vars

\* the table holds an entry for exactly the enabled rows that can be built,
\* each with the schedule its row resolves to
TableReflectsRows ==
    \A n \in TaskNames :
        LET loadable == /\ n \in EnabledRows
                        /\ ~EntryRaises(Prefetched(db_tasks[n][1]))
        IN  /\ (n \in DOMAIN _schedule) <=> loadable
            /\ (n \in DOMAIN _schedule /\ loadable) =>
                  _schedule[n].entry.schedule
                      = Entry__init__(Prefetched(db_tasks[n][1]), now).entry.schedule

\* C15: with the admin's two writes (rows, then marker) interleaved with the
\* loop's reload steps in any way, whenever the loop stands between reloads
\* with a baseline equal to the stored marker, its table was loaded from the
\* rows as they are: the baseline is never at the bumped marker over a table
\* loaded before the mutation.
C15_BaselineNeverAheadOfTable ==
    (/\ pc \in {"idle", "due"}
     /\ admin.pc = "idle"
     /\ db_changed # None
     /\ _last_timestamp = db_changed) => TableReflectsRows

(***************************************************************************)
(* Properties of the loop over a failing storage or broker (FaultSpec)     *)
(***************************************************************************)
\* C12: a name whose statistics write failed stays in _dirty until a later
\* pass has written it.
C12_FailedWriteStaysDirty ==
    \A n \in audit.unsaved : n \in _dirty

\* C13: close() releases the connection only after a sync pass that emptied
\* _dirty: once it has, the row of every dispatched job whose write the
\* storage took holds the last_run_at and total_run_count of its entry.
C13_CloseSyncsBeforeRelease ==
    pc \in {"closing", "closed"} =>
        /\ _dirty = {}
        /\ sync_pass.why = "close"
        /\ \A n \in DOMAIN _schedule :
              (/\ _schedule[n].task_model.total_run_count > 0
               /\ n \notin audit.unsaved
               /\ db_tasks[n] # None) =>
                  /\ db_tasks[n][1].last_run_at = _schedule[n].task_model.last_run_at
                  /\ db_tasks[n][1].total_run_count = _schedule[n].task_model.total_run_count

C13_Witness ==
    /\ pc = "closed"
    /\ \E n \in sync_pass.saved :
          /\ db_tasks[n][1].total_run_count = 1
          /\ db_tasks[n][1].last_run_at = _schedule[n].task_model.last_run_at
          /\ _schedule[n].entry.total_run_count = 1

\* C14: when the submission of a due entry raises, the table holds the
\* successor (last_run_at = now, one more run), the name is dirty, the loop
\* goes on, and the successor is not due again before its next occurrence.
C14_FailedSendStillFires ==
    [][(audit'.sent # audit.sent /\ audit'.sent # None /\ ~audit'.sent[1].ok) =>
          LET n == audit'.sent[1].name
              old == _schedule[n]
              new == _schedule'[n]
          IN  /\ new.entry.last_run_at = now
              /\ new.task_model.last_run_at = Some(now)
              /\ new.entry.total_run_count = old.task_model.total_run_count + 1
              /\ n \in _dirty'
              /\ pc' = "idle"
              /\ \A t \in now .. now + MaxTicks :
                    is_due(new.entry, new.task_model, t).is_due =>
                        /\ ~new.task_model.one_off
                        /\ t >= now + new.entry.schedule.run_every]_vars

C14_Witness ==
    /\ audit.sent # None
    /\ ~audit.sent[1].ok
    /\ audit.sent[1].name \in _dirty
    /\ _schedule[audit.sent[1].name].entry.total_run_count = 1
    /\ _schedule[audit.sent[1].name].entry.last_run_at = now
    /\ pc = "idle"

\* C19: a row whose entry cannot be built is left out of the loaded table and
\* every other enabled row is in it, and a statistics write that fails takes
\* the name out of _dirty and lets the pass go on with the other names.
C19_OneJobFailureIsIsolated ==
    [][/\ (pc = "load" /\ pc' = "stamp" /\ faults.storage = "up") =>
             \A n \in EnabledRows :
                 IF EntryRaises(Prefetched(db_tasks[n][1]))
                 THEN n \notin DOMAIN _schedule'
                 ELSE /\ n \in DOMAIN _schedule'
                      /\ _schedule'[n].entry.name = n
       /\ (pc \in {"sync", "psync", "csync"} /\ _dirty' # _dirty /\ faults.storage = "down") =>
             /\ pc' = pc
             /\ _schedule' = _schedule
             /\ \E n \in _dirty : _dirty' = _dirty \ {n}]_vars

C19_Witness ==
    /\ ~_initial_read
    /\ "b" \in EnabledRows
    /\ EntryRaises(Prefetched(db_tasks["b"][1]))
    /\ DOMAIN _schedule = {"a"}
    /\ audit.sent = Some([name |-> "a", ok |-> TRUE])
    /\ _schedule["a"].entry.total_run_count = 1

\* C20: after a load that failed, once a change check has run with the
\* storage answering, the table the tick works on holds the enabled rows.
C20_FailedLoadIsRetried ==
    (audit.load = "rechecked" /\ pc = "due" /\ faults.storage = "up") =>
        \A n \in EnabledRows :
            ~EntryRaises(Prefetched(db_tasks[n][1])) => n \in DOMAIN _schedule

(***************************************************************************)
(* Properties of the admin operations (AdminSpec)                          *)
(***************************************************************************)
\* C16: every admin step that changes a job, interval or crontab row either
\* leaves the operation on its way to the marker write or writes the marker
\* itself, and the step that ends an operation under way sets the marker to
\* the current time.
C16_EveryMutationBumpsMarker ==
    [][/\ <<db_tasks, db_intervals, db_crontabs>>' # <<db_tasks, db_intervals, db_crontabs>> =>
             admin'.pc \in {"reset", "bump"}
       /\ (admin.pc # "idle" /\ admin'.pc = "idle") =>
             /\ db_changed' # db_changed
             /\ db_changed' # None
             /\ db_changed'[1].at = now]_vars

\* C17: the marker is written only by the last step of an admin operation:
\* that step changes no row and ends the operation, no step that changes a
\* row changes the marker, and an operation under way ends with the marker
\* write only.
C17_MarkerBumpIsLastWrite ==
    [][/\ db_changed' # db_changed =>
             /\ admin.pc = "bump"
             /\ admin'.pc = "idle"
             /\ UNCHANGED <<db_tasks, db_intervals, db_crontabs>>
       /\ <<db_tasks, db_intervals, db_crontabs>>' # <<db_tasks, db_intervals, db_crontabs>> =>
             db_changed' = db_changed
       /\ (admin.pc # "idle" /\ admin'.pc = "idle") => db_changed' # db_changed]_vars

C17_Witness ==
    /\ admin.pc = "idle"
    /\ admin.ops > 0
    /\ db_intervals[1] = Some([every |-> 3, period |-> "seconds"])
    /\ db_changed # None
    /\ db_changed[1].at = now

\* C18: every stored job references exactly one of interval and crontab.
C18_ExactlyOneSchedule ==
    \A n \in TaskNames :
        db_tasks[n] # None =>
            (db_tasks[n][1].interval_id = None) # (db_tasks[n][1].crontab_id = None)

(***************************************************************************)
(* Properties of the loop under a schedule that cannot be built (FaultSpec)*)
(***************************************************************************)
\* the row of n has a crontab only, and its timezone name is unknown
BadTimezoneRow(n) ==
    /\ db_tasks[n] # None
    /\ db_tasks[n][1].enabled
    /\ db_tasks[n][1].interval_id = None
    /\ db_tasks[n][1].crontab_id # None
    /\ db_crontabs[db_tasks[n][1].crontab_id[1]] # None
    /\ ~pytz_known(db_crontabs[db_tasks[n][1].crontab_id[1]][1].timezone)

\* C21: a job whose crontab has an unknown timezone name is never in the
\* table the tick evaluates and is never dispatched, the loop goes on past
\* the load that met it, and after a load that the storage answered every
\* other enabled job is in the table.
C21_BadTimezoneFailsClosed ==
    \A n \in TaskNames :
        BadTimezoneRow(n) =>
            /\ n \notin DOMAIN _schedule
            /\ n \notin audit.fired
            /\ audit.sent # None => audit.sent[1].name # n
            /\ (audit.load = "ok" /\ ~_initial_read /\ pc \in {"stamp", "due"}) =>
                  \A m \in EnabledRows \ {n} : m \in DOMAIN _schedule

C21_Witness ==
    /\ BadTimezoneRow("b")
    /\ ~_initial_read
    /\ audit.load = "ok"
    /\ pc = "idle"
    /\ audit.fired = {"a"}
    /\ now = T0 + 1
    /\ faults.n = 0

C23_NullLastRunMeansZeroCount ==
    \A n \in TaskNames :
        db_tasks[n] # None =>
            /\ db_tasks[n][1].total_run_count >= 0
            /\ db_tasks[n][1].last_run_at = None => db_tasks[n][1].total_run_count = 0

(***************************************************************************)
(* Properties of the admin operations (AdminSpec), II                      *)
(***************************************************************************)
\* no two interval rows hold the same (every, period)
IntervalsUnique(table) ==
    \A i, j \in IntervalIds :
        (i # j /\ table[i] # None) => table[i] # table[j]

\* C24: create_interval with an unknown period returns an error and stores
\* nothing; with values a row already holds it returns that row and stores
\* nothing; otherwise it adds one row with these values and returns it; and
\* no two interval rows ever share (every, period).
C24_CreateIntervalIdempotent ==
    [][/\ ("req" \in DOMAIN admin' /\ admin' # admin) =>
             LET data == admin'.req
                 ret == admin'.ret
             IN  IF data.period \notin Periods
                 THEN ret = None /\ db_intervals' = db_intervals
                 ELSE IF \E i \in IntervalIds : db_intervals[i] = Some(data)
                 THEN /\ ret # None
                      /\ db_intervals[ret[1]] = Some(data)
                      /\ db_intervals' = db_intervals
                 ELSE /\ ret # None
                      /\ db_intervals[ret[1]] = None
                      /\ db_intervals' = [db_intervals EXCEPT ![ret[1]] = Some(data)]
       /\ IntervalsUnique(db_intervals')]_vars

\* a create with the values of row 1 returned row 1 and added nothing
C24_Witness ==
    /\ "req" \in DOMAIN admin
    /\ admin.req = [every |-> 1, period |-> "seconds"]
    /\ admin.ret = Some(1)
    /\ db_intervals[1] = Some(admin.req)
    /\ db_intervals[3] = None

(***************************************************************************)
(* Properties of the result records (ResultSpec)                           *)
(***************************************************************************)
\* C25: a result record has a date_done exactly when its status is SUCCESS,
\* FAILURE or REVOKED.
C25_DateDoneIffTerminal ==
    \A id \in ResultIds :
        db_results[id] # None =>
            (db_results[id][1].date_done # None
                <=> db_results[id][1].status \in {"SUCCESS", "FAILURE", "REVOKED"})

(***************************************************************************)
(* Properties of the change check and the reload (Spec)                    *)
(***************************************************************************)
\* a tick past the first reads the schedule property: the step that decides
\* between a reload and the table as it is
ChangeCheck == pc = "idle" /\ ~_initial_read /\ pc' \in {"sync", "due"}

\* the stored marker is newer than the baseline; a baseline that is absent
\* is older than every marker
MarkerNewer ==
    /\ db_changed # None
    /\ _last_timestamp = None \/ StampAfter(db_changed[1], _last_timestamp[1])

\* C26: a change check made with no baseline while a marker is stored
\* reports a change and starts the reload.
C26_AbsentBaselineSeesBump ==
    [][(ChangeCheck /\ _last_timestamp = None /\ db_changed # None) => pc' = "sync"]_vars

\* C27: when the reload has loaded the table, every job whose last_run_at
\* an admin reset while its entry was dirty still has a null last_run_at in
\* its row, and its reloaded entry has none either.
C27_ResetSurvivesSync ==
    (pc = "stamp" /\ audit.load = "ok") =>
        \A n \in audit.reset :
            db_tasks[n] # None =>
                /\ db_tasks[n][1].last_run_at = None
                /\ n \in DOMAIN _schedule => _schedule[n].task_model.last_run_at = None

\* C28: a tick starts a reload iff it is the first or the stored marker is
\* newer than the baseline; the reload saves the dirty entries, then replaces
\* the table by the loaded entries, then sets the baseline to the marker it
\* reads; a tick that starts no reload leaves the table as it is.
C28_ReloadIffFirstOrNewer ==
    [][/\ (pc = "idle" /\ pc' \in {"sync", "due"}) =>
             /\ pc' = "sync" <=> (_initial_read \/ MarkerNewer)
             /\ _schedule' = _schedule
       /\ (pc = "sync" /\ pc' # pc) => (pc' = "load" /\ _dirty = {} /\ _schedule' = _schedule)
       /\ (pc = "load" /\ pc' # pc) =>
             /\ pc' = "stamp"
             /\ _schedule' = _load_entries_from_db(now)
             /\ _last_timestamp' = _last_timestamp
       /\ (pc = "stamp" /\ pc' # pc) =>
             /\ pc' = "due"
             /\ _last_timestamp' = db_changed
             /\ _schedule' = _schedule
       /\ _schedule' # _schedule => (pc = "load" \/ pc = "due")]_vars

\* C29: schedule_changed() answers true iff the stored marker is newer than
\* the baseline, and it leaves the baseline equal to the stored marker
\* whatever it answers.
C29_ChangeCheckSetsBaseline ==
    [][ChangeCheck =>
          /\ pc' = "sync" <=> MarkerNewer
          /\ _last_timestamp' = db_changed]_vars

\* C30: a one-off job that has been dispatched is not dispatched again, and
\* a load never gives an entry with total_run_count 0 to such a job.
C30_OneOffDispatchedOnce ==
    [][/\ \A n \in TaskNames :
             (pc = "due" /\ audit'.sent # None /\ audit'.sent[1].name = n
              /\ _schedule[n].task_model.one_off) => n \notin audit.fired
       /\ (pc = "load" /\ pc' = "stamp") =>
             \A n \in DOMAIN _schedule' :
                 (_schedule'[n].task_model.one_off /\ n \in audit.fired) =>
                     _schedule'[n].task_model.total_run_count > 0]_vars

(***************************************************************************)
(* Properties of reserve and sync (FaultSpec, Spec)                        *)
(***************************************************************************)
\* the step of tick() that dispatches the entry of name n
Dispatches(n) == pc = "due" /\ audit'.sent # None /\ audit'.sent[1].name = n

\* C32: the step that dispatches a due entry replaces the entry of that name
\* in the table by its successor (total_run_count one more, last_run_at now),
\* puts the name in _dirty and writes nothing to the tables; the successor is
\* what a due-check at the same instant evaluates, and it is not due.
C32_ReserveAdvancesInMemory ==
    [][\A n \in TaskNames :
          Dispatches(n) =>
              /\ DOMAIN _schedule' = DOMAIN _schedule
              /\ _schedule'[n].entry.total_run_count = _schedule[n].entry.total_run_count + 1
              /\ _schedule'[n].entry.last_run_at = now
              /\ _schedule'[n].task_model.last_run_at = Some(now)
              /\ _schedule'[n].task_model.total_run_count
                     = _schedule[n].task_model.total_run_count + 1
              /\ \A m \in DOMAIN _schedule \ {n} : _schedule'[m] = _schedule[m]
              /\ _dirty' = _dirty \cup {n}
              /\ UNCHANGED db_vars
              /\ ~is_due(_schedule'[n].entry, _schedule'[n].task_model, now).is_due]_vars

\* job a has been dispatched a second time while its row still holds the
\* statistics of before its first dispatch
C32_Witness ==
    /\ pc = "idle"
    /\ audit.sent = Some([name |-> "a", ok |-> TRUE])
    /\ "a" \in _dirty
    /\ _schedule["a"].entry.total_run_count = 2
    /\ _schedule["a"].entry.last_run_at = now
    /\ db_tasks["a"][1].total_run_count = 0
    /\ db_tasks["a"][1].last_run_at = None

\* the step of sync() that pops a name and saves its entry
SyncTurn == pc \in {"sync", "psync", "csync"} /\ _dirty' # _dirty

\* C33: a turn of sync() leaves the marker, the interval rows and the crontab
\* rows as they are, creates no job row and deletes none, changes no row but
\* the one of the name it pops, and in that row no field but last_run_at and
\* total_run_count.
C33_SyncWritesStatisticsOnly ==
    [][SyncTurn =>
          /\ UNCHANGED <<db_changed, db_intervals, db_crontabs>>
          /\ \A n \in TaskNames :
                IF db_tasks[n] = None THEN db_tasks'[n] = None
                ELSE /\ db_tasks'[n] # None
                     /\ n \notin (_dirty \ _dirty') => db_tasks'[n] = db_tasks[n]
                     /\ \A f \in DOMAIN db_tasks[n][1] \ {"last_run_at", "total_run_count"} :
                           db_tasks'[n][1][f] = db_tasks[n][1][f]]_vars

\* the statistics of a job were written into a row an admin had disabled
\* after the table was loaded
C33_Witness ==
    \E n \in TaskNames :
        /\ pc \in {"sync", "psync"}
        /\ n \in sync_pass.saved
        /\ db_tasks[n] # None
        /\ ~db_tasks[n][1].enabled
        /\ _schedule[n].task_model.enabled
        /\ db_tasks[n][1].total_run_count = 1
        /\ db_tasks[n][1].last_run_at = _schedule[n].task_model.last_run_at

\* the step of the schedule property that loads the table, the query answered
Loads == pc = "load" /\ pc' = "stamp" /\ faults.storage = "up"

\* C34 as claimed: a load leaves in the table exactly the enabled rows.
C34_TableIsExactlyEnabledRows ==
    [][Loads => DOMAIN _schedule' = EnabledRows]_vars

\* the row of n is enabled and its schedule can be built
Buildable(n) ==
    /\ n \in EnabledRows
    /\ LET row == db_tasks[n][1]
       IN  IF row.interval_id # None
           THEN db_intervals[row.interval_id[1]][1].period \in Periods
           ELSE row.crontab_id # None =>
                    pytz_known(db_crontabs[row.crontab_id[1]][1].timezone)

\* C34: a load leaves in the table exactly the enabled rows whose entry can
\* be built, each under its name and built from the row of that name: no
\* disabled job, no deleted job and no job whose schedule raises is in it.
C34_TableIsEnabledBuildableRows ==
    [][Loads =>
          /\ DOMAIN _schedule' = {n \in TaskNames : Buildable(n)}
          /\ \A n \in DOMAIN _schedule' :
                /\ _schedule'[n] = Entry__init__(Prefetched(db_tasks[n][1]), now)
                /\ _schedule'[n].entry.name = n]_vars

\* after an admin disabled or deleted job a, a reload left it out of the
\* table and kept job b
C34_Witness ==
    /\ pc = "stamp"
    /\ sync_pass.why = "changed"
    /\ "a" \in audit.fired
    /\ "a" \notin EnabledRows
    /\ "b" \in EnabledRows
    /\ DOMAIN _schedule = {"b"}

\* C39: every name in _dirty is a key of the table, its entry holds the
\* statistics of a dispatch that the row of the job does not hold yet, and
\* when the table is about to be replaced or has just been replaced _dirty
\* is empty.
C39_DirtyNamesAreTableKeys ==
    /\ \A n \in _dirty :
          /\ n \in DOMAIN _schedule
          /\ n \in audit.fired
          /\ _schedule[n].entry.total_run_count >= 1
          /\ _schedule[n].task_model.last_run_at = Some(_schedule[n].entry.last_run_at)
          /\ db_tasks[n] # None =>
                db_tasks[n][1].last_run_at # _schedule[n].task_model.last_run_at
    /\ pc \in {"load", "stamp"} => _dirty = {}

\* a reload was started with two names in _dirty and has emptied it
C39_Witness ==
    /\ pc = "load"
    /\ sync_pass.why = "changed"
    /\ sync_pass.saved = {"a", "b"}
    /\ _dirty = {}

(***************************************************************************)
(* Properties of the schedule updates (AdminSpec)                          *)
(***************************************************************************)
\* the row r with its last_run_at reset
ResetRow(r) == Some([r[1] EXCEPT !.last_run_at = None])

\* C37: an update_interval or update_crontab request with no field writes
\* nothing and ends; one whose fields are saved goes on to reset last_run_at
\* in every job row that references the schedule row and in no other, then
\* writes the marker, and these are its only writes.
C37_ScheduleUpdateResetsReferencingJobs ==
    [][/\ (admin.pc = "idle" /\ "upd" \in DOMAIN admin' /\ admin'.ops # admin.ops) =>
             /\ UNCHANGED <<db_tasks, db_changed>>
             /\ IF DOMAIN admin'.upd = {}
                THEN admin'.pc = "idle" /\ UNCHANGED <<db_intervals, db_crontabs>>
                ELSE \/ admin'.pc = "reset"
                     \/ admin'.pc = "idle" /\ UNCHANGED <<db_intervals, db_crontabs>>
       /\ (admin.pc = "reset" /\ admin' # admin) =>
             /\ admin'.pc = "bump"
             /\ UNCHANGED <<db_intervals, db_crontabs, db_changed>>
             /\ \A n \in TaskNames :
                   db_tasks'[n] =
                       IF /\ db_tasks[n] # None
                          /\ IF "id" \in DOMAIN admin
                             THEN db_tasks[n][1].interval_id = Some(admin.id)
                             ELSE db_tasks[n][1].crontab_id = Some(admin.cid)
                       THEN ResetRow(db_tasks[n])
                       ELSE db_tasks[n]
       /\ (admin.pc = "bump" /\ admin' # admin) =>
             /\ admin'.pc = "idle"
             /\ UNCHANGED <<db_tasks, db_intervals, db_crontabs>>
             /\ db_changed' # db_changed
             /\ db_changed'[1].at = now]_vars

\* update_crontab has reset the job that references the crontab and has
\* left the last_run_at of the other job, and the marker is written
C37_Witness ==
    /\ admin.pc = "idle"
    /\ admin.ops = 1
    /\ db_crontabs[1] = Some([minute |-> "0", timezone |-> "Asia/Shanghai"])
    /\ db_tasks["b"] = Some([Row("b", None, Some(1), FALSE) EXCEPT !.total_run_count = 1])
    /\ db_tasks["a"] = Some(Row("a", Some(1), None, FALSE))
    /\ db_changed # None /\ db_changed[1].at = now

\* C38: every stored interval has every > 0 and a period among days, hours,
\* minutes, seconds and microseconds.
C38_StoredIntervalsAreValid ==
    \A i \in IntervalIds :
        db_intervals[i] # None =>
            /\ db_intervals[i][1].every > 0
            /\ db_intervals[i][1].period \in Periods

(***************************************************************************)
(* Properties of the loop with a writer that skips the marker (ExternalSpec)*)
(***************************************************************************)
\* the table has an entry for a job that is disabled, or none for one that
\* is enabled
TableStale == DOMAIN _schedule # EnabledRows

\* C40: a table that differs from the enabled rows is brought in line with
\* them by the ticks that follow.
C40_StaleTableIsRefreshed ==
    [](TableStale => <>(~TableStale))

====
